---- MODULE Spec2Model ----
(***************************************************************************)
(* A model of the patent download catalog (PatentDownloadInterface.js):    *)
(* the classifier, the aggregator with its Essentials overlay, the         *)
(* disambiguation splitter, the facet indexer, the filter engine and the   *)
(* React state of the component that drives them.                          *)
(*                                                                         *)
(* JavaScript strings are TLA+ strings; TLC evaluates Len, SubSeq, Tail    *)
(* and \o on them, so includes(), startsWith(), split(), toLowerCase() and *)
(* the year regular expression are computed character by character.        *)
(* JavaScript null is the string null below (no identifier, year or        *)
(* content type of the program is that string).                            *)
(***************************************************************************)
EXTENDS Integers, Sequences, FiniteSets, TLC

null == "<null>"
\* null where the program expects an object (no object of the program is empty
\* where it is compared with null)
nullObject == <<>>

(***************************************************************************)
(* String.prototype methods                                                *)
(***************************************************************************)
\* s.charAt(i - 1): the empty string outside the string
CharAt(s, i) == IF i \in 1..Len(s) THEN SubSeq(s, i, i) ELSE ""

\* s.includes(p)
includes(s, p) ==
    \E i \in 1..(Len(s) - Len(p) + 1) : SubSeq(s, i, i + Len(p) - 1) = p

\* s.startsWith(p)
startsWith(s, p) == Len(s) >= Len(p) /\ SubSeq(s, 1, Len(p)) = p

UpperAlphabet == "ABCDEFGHIJKLMNOPQRSTUVWXYZ"
LowerAlphabet == "abcdefghijklmnopqrstuvwxyz"
Digits == {"0", "1", "2", "3", "4", "5", "6", "7", "8", "9"}

ToUpperMap == [c \in {CharAt(LowerAlphabet, i) : i \in 1..26} |->
                 CharAt(UpperAlphabet,
                        CHOOSE i \in 1..26 : CharAt(LowerAlphabet, i) = c)]
ToLowerMap == [c \in {CharAt(UpperAlphabet, i) : i \in 1..26} |->
                 CharAt(LowerAlphabet,
                        CHOOSE i \in 1..26 : CharAt(UpperAlphabet, i) = c)]

UpperChar(c) == IF c \in DOMAIN ToUpperMap THEN ToUpperMap[c] ELSE c
LowerChar(c) == IF c \in DOMAIN ToLowerMap THEN ToLowerMap[c] ELSE c

RECURSIVE toLowerCase(_)
toLowerCase(s) ==
    IF s = "" THEN "" ELSE LowerChar(CharAt(s, 1)) \o toLowerCase(Tail(s))

RECURSIVE toUpperCase(_)
toUpperCase(s) ==
    IF s = "" THEN "" ELSE UpperChar(CharAt(s, 1)) \o toUpperCase(Tail(s))

\* index of the first occurrence of p in s, 0 when there is none
IndexOf(s, p) ==
    IF includes(s, p)
    THEN CHOOSE i \in 1..(Len(s) - Len(p) + 1) :
            /\ SubSeq(s, i, i + Len(p) - 1) = p
            /\ \A j \in 1..(i - 1) : SubSeq(s, j, j + Len(p) - 1) # p
    ELSE 0

\* s.split('_')
RECURSIVE split(_)
split(s) ==
    LET i == IndexOf(s, "_")
    IN  IF i = 0 THEN <<s>>
        ELSE <<SubSeq(s, 1, i - 1)>> \o split(SubSeq(s, i + 1, Len(s)))

\* words.join(' ')
RECURSIVE join(_)
join(words) ==
    IF words = <<>> THEN ""
    ELSE IF Len(words) = 1 THEN words[1]
    ELSE words[1] \o " " \o join(Tail(words))

\* s.replace(/_/g, ' ')
RECURSIVE replaceUnderscores(_)
replaceUnderscores(s) ==
    IF s = "" THEN ""
    ELSE (IF CharAt(s, 1) = "_" THEN " " ELSE CharAt(s, 1))
            \o replaceUnderscores(Tail(s))

\* s.replace(/^(g|pg)_/, '')
stripPrefix(s) ==
    IF startsWith(s, "g_") THEN SubSeq(s, 3, Len(s))
    ELSE IF startsWith(s, "pg_") THEN SubSeq(s, 4, Len(s))
    ELSE s

\* word.charAt(0).toUpperCase() + word.slice(1)
capitalize(word) == toUpperCase(CharAt(word, 1)) \o SubSeq(word, 2, Len(word))

\* the regular expression without its end anchor: the first "_dddd" anywhere
yearMatch_unanchored(name) ==
    LET at == {i \in 1..(Len(name) - 4) :
                 /\ CharAt(name, i) = "_"
                 /\ \A k \in 1..4 : CharAt(name, i + k) \in Digits}
    IN  IF at = {} THEN null
        ELSE LET i == CHOOSE i \in at : \A j \in at : i <= j
             IN  SubSeq(name, i + 1, i + 4)

\* name.match(/_(\d{4})$/): the captured group, or null
yearMatch(name) ==
    LET n == Len(name)
    IN  IF /\ n >= 5
           /\ CharAt(name, n - 4) = "_"
           /\ \A i \in (n - 3)..n : CharAt(name, i) \in Digits
        THEN SubSeq(name, n - 3, n)
        ELSE null

(***************************************************************************)
(* categorizeItem                                                          *)
(***************************************************************************)
\* the claims_ pattern tested before brf_sum_text_
contentTypeOf_claimsFirst(name) ==
    IF includes(name, "claims_") THEN "Claims"
    ELSE IF includes(name, "brf_sum_text_") THEN "Brief Summary"
    ELSE IF includes(name, "detail_desc_text_") THEN "Detailed Description"
    ELSE IF includes(name, "draw_desc_text_") THEN "Drawing Description"
    ELSE IF includes(name, "abstract") THEN "Abstract"
    ELSE null

contentTypeOf(name) ==
    IF includes(name, "brf_sum_text_") THEN "Brief Summary"
    ELSE IF includes(name, "claims_") THEN "Claims"
    ELSE IF includes(name, "detail_desc_text_") THEN "Detailed Description"
    ELSE IF includes(name, "draw_desc_text_") THEN "Drawing Description"
    ELSE IF includes(name, "abstract") THEN "Abstract"
    ELSE null

\* the Mapping rule moved to the head of the functional-area chain
categoryOf_mappingFirst(name, contentType) ==
    IF contentType # null THEN "Content"
    ELSE IF \/ includes(name, "persistent") \/ includes(name, "crosswalk")
            \/ includes(name, "granted_pgpubs")
         THEN "Mapping"
    ELSE IF \/ includes(name, "inventor") \/ includes(name, "attorney")
            \/ includes(name, "lawyer")   \/ includes(name, "assignee")
            \/ includes(name, "applicant") \/ includes(name, "examiner")
         THEN "People"
    ELSE IF includes(name, "location") \/ includes(name, "geography")
         THEN "Geography"
    ELSE IF \/ includes(name, "cpc") \/ includes(name, "uspc")
            \/ includes(name, "ipc") \/ includes(name, "wipo")
         THEN "Classification"
    ELSE IF includes(name, "citation") \/ includes(name, "reference")
         THEN "Citations"
    ELSE IF includes(name, "gov_interest") \/ includes(name, "federal")
         THEN "Government"
    ELSE IF \/ includes(name, "priority") \/ includes(name, "rel_")
            \/ includes(name, "term") \/ includes(name, "pct")
         THEN "Legal"
    ELSE IF includes(name, "figures") \/ includes(name, "botanic")
         THEN "Other Documentation"
    ELSE IF includes(name, "patent") \/ includes(name, "application")
         THEN "General"
    ELSE "Other"

categoryOf(name, contentType) ==
    IF contentType # null THEN "Content"
    ELSE IF \/ includes(name, "inventor") \/ includes(name, "attorney")
            \/ includes(name, "lawyer")   \/ includes(name, "assignee")
            \/ includes(name, "applicant") \/ includes(name, "examiner")
         THEN "People"
    ELSE IF includes(name, "location") \/ includes(name, "geography")
         THEN "Geography"
    ELSE IF \/ includes(name, "cpc") \/ includes(name, "uspc")
            \/ includes(name, "ipc") \/ includes(name, "wipo")
         THEN "Classification"
    ELSE IF includes(name, "citation") \/ includes(name, "reference")
         THEN "Citations"
    ELSE IF includes(name, "gov_interest") \/ includes(name, "federal")
         THEN "Government"
    ELSE IF \/ includes(name, "priority") \/ includes(name, "rel_")
            \/ includes(name, "term") \/ includes(name, "pct")
         THEN "Legal"
    ELSE IF \/ includes(name, "persistent") \/ includes(name, "crosswalk")
            \/ includes(name, "granted_pgpubs")
         THEN "Mapping"
    ELSE IF includes(name, "figures") \/ includes(name, "botanic")
         THEN "Other Documentation"
    ELSE IF includes(name, "patent") \/ includes(name, "application")
         THEN "General"
    ELSE "Other"

patentTypeOf(name) == IF startsWith(name, "pg_") THEN "pregrant" ELSE "granted"

yearOf(name, contentType) ==
    IF contentType # null THEN yearMatch(name) ELSE null

displayNameOf(name) ==
    CHOOSE displayName \in
        {replaceUnderscores(joined) :
            joined \in {join([i \in 1..Len(words) |-> capitalize(words[i])]) :
                          words \in {split(stripPrefix(name))}}} : TRUE

categorizeItem(item) ==
    LET name == item.table_name
        contentType == contentTypeOf(name)
    IN  [table_name  |-> item.table_name,
         description |-> item.description,
         displayName |-> displayNameOf(name),
         type        |-> patentTypeOf(name),
         category    |-> categoryOf(name, contentType),
         contentType |-> contentType,
         year        |-> yearOf(name, contentType)]

\* ---- dataProcessor.js: the exported categorizeItem ----

dataProcessor_contentTypeOf(name) ==
    IF includes(name, "brf_sum_text_") THEN "Brief Summary"
    ELSE IF includes(name, "claims_") THEN "Claims"
    ELSE IF includes(name, "detail_desc_text_") THEN "Detailed Description"
    ELSE IF includes(name, "draw_desc_text_") THEN "Drawing Description"
    ELSE IF includes(name, "abstract") THEN "Abstract"
    ELSE null

\* the cascade of the exported classifier ends with General: it has no
\* test for patent or application and no category Other
dataProcessor_categoryOf(name, contentType) ==
    IF contentType # null THEN "Content"
    ELSE IF \/ includes(name, "inventor") \/ includes(name, "attorney")
            \/ includes(name, "lawyer")   \/ includes(name, "assignee")
            \/ includes(name, "applicant") \/ includes(name, "examiner")
         THEN "People"
    ELSE IF includes(name, "location") \/ includes(name, "geography")
         THEN "Geography"
    ELSE IF \/ includes(name, "cpc") \/ includes(name, "uspc")
            \/ includes(name, "ipc") \/ includes(name, "wipo")
         THEN "Classification"
    ELSE IF includes(name, "citation") \/ includes(name, "reference")
         THEN "Citations"
    ELSE IF includes(name, "gov_interest") \/ includes(name, "federal")
         THEN "Government"
    ELSE IF \/ includes(name, "priority") \/ includes(name, "rel_")
            \/ includes(name, "term") \/ includes(name, "pct")
         THEN "Legal"
    ELSE IF \/ includes(name, "persistent") \/ includes(name, "crosswalk")
            \/ includes(name, "granted_pgpubs")
         THEN "Mapping"
    ELSE IF includes(name, "figures") \/ includes(name, "botanic")
         THEN "Other Documentation"
    ELSE "General"

dataProcessor_patentTypeOf(name) ==
    IF startsWith(name, "pg_") THEN "pregrant" ELSE "granted"

dataProcessor_yearOf(name, contentType) ==
    IF contentType # null THEN yearMatch(name) ELSE null

dataProcessor_displayNameOf(name) ==
    CHOOSE displayName \in
        {replaceUnderscores(joined) :
            joined \in {join([i \in 1..Len(words) |-> capitalize(words[i])]) :
                          words \in {split(stripPrefix(name))}}} : TRUE

dataProcessor_categorizeItem(item) ==
    LET name == item.table_name
        contentType == dataProcessor_contentTypeOf(name)
    IN  [table_name  |-> item.table_name,
         description |-> item.description,
         displayName |-> dataProcessor_displayNameOf(name),
         type        |-> dataProcessor_patentTypeOf(name),
         category    |-> dataProcessor_categoryOf(name, contentType),
         contentType |-> contentType,
         year        |-> dataProcessor_yearOf(name, contentType)]

(***************************************************************************)
(* Array and object helpers                                                *)
(***************************************************************************)
\* the elements of a sequence
Elems(seq) == {seq[i] : i \in 1..Len(seq)}

\* obj[key] = value on an object held as a function from its keys
put(obj, key, value) == (key :> value) @@ obj

\* code unit order of the characters the program's labels are made of
CodeOrder == " 0123456789ABCDEFGHIJKLMNOPQRSTUVWXYZ_abcdefghijklmnopqrstuvwxyz"
CodeOf == [c \in {CharAt(CodeOrder, i) : i \in 1..Len(CodeOrder)} |->
             CHOOSE i \in 1..Len(CodeOrder) : CharAt(CodeOrder, i) = c]

\* a < b in the order of Array.prototype.sort() without a comparator
RECURSIVE strLess(_, _)
strLess(a, b) ==
    IF b = "" THEN FALSE
    ELSE IF a = "" THEN TRUE
    ELSE IF CharAt(a, 1) = CharAt(b, 1) THEN strLess(Tail(a), Tail(b))
    ELSE CodeOf[CharAt(a, 1)] < CodeOf[CharAt(b, 1)]

\* Number(s) for a string of digits
DigitValue == [c \in Digits |->
                 CHOOSE v \in 0..9 : CharAt("0123456789", v + 1) = c]
RECURSIVE toNumber(_)
toNumber(s) ==
    IF s = "" THEN 0
    ELSE 10 * toNumber(SubSeq(s, 1, Len(s) - 1)) + DigitValue[CharAt(s, Len(s))]

\* Array.from(set).sort(): the strings of the set in code unit order
sortStrings(set) ==
    [k \in 1..Cardinality(set) |->
        CHOOSE x \in set : Cardinality({y \in set : strLess(y, x)}) = k - 1]

\* Array.from(years).sort((a, b) => b - a): the years of the set, descending
sortYears(set) ==
    [k \in 1..Cardinality(set) |->
        CHOOSE x \in set :
            Cardinality({y \in set : toNumber(y) > toNumber(x)}) = k - 1]

(***************************************************************************)
(* organizeByDisambiguation                                                *)
(***************************************************************************)
\* A category bucket is an array, [shape |-> "Flat", items |-> ...], or the
\* object organizeByDisambiguation returns, [shape |-> "Grouped",
\* disambiguated |-> ..., raw |-> ...] with a main field once an item was
\* pushed to it.  isArray is Array.isArray.
Flat(items) == [shape |-> "Flat", items |-> items]
isArray(bucket) == bucket.shape = "Flat"
has(bucket, field) == field \in DOMAIN bucket

\* _disambiguated looked for before _not_disambiguated
organizeStep_disambiguatedFirst(result, item) ==
    IF includes(item.table_name, "_disambiguated")
    THEN [result EXCEPT !.disambiguated = Append(@, item)]
    ELSE IF includes(item.table_name, "_not_disambiguated")
    THEN [result EXCEPT !.raw = Append(@, item)]
    ELSE IF has(result, "main")
    THEN [result EXCEPT !.main = Append(@, item)]
    ELSE put(result, "main", <<item>>)

organizeStep(result, item) ==
    IF includes(item.table_name, "_not_disambiguated")
    THEN [result EXCEPT !.raw = Append(@, item)]
    ELSE IF includes(item.table_name, "_disambiguated")
    THEN [result EXCEPT !.disambiguated = Append(@, item)]
    ELSE IF has(result, "main")
    THEN [result EXCEPT !.main = Append(@, item)]
    ELSE put(result, "main", <<item>>)

RECURSIVE organizeFrom(_, _)
organizeFrom(result, items) ==
    IF items = <<>> THEN result
    ELSE organizeFrom(organizeStep(result, items[1]), Tail(items))

\* the result object created with an empty main array
organizeByDisambiguation_eagerMain(items) ==
    organizeFrom([shape |-> "Grouped", disambiguated |-> <<>>, raw |-> <<>>,
                  main |-> <<>>],
                 items)

organizeByDisambiguation(items) ==
    organizeFrom([shape |-> "Grouped", disambiguated |-> <<>>, raw |-> <<>>],
                 items)

(***************************************************************************)
(* processData                                                             *)
(***************************************************************************)
PatentTypes == {"granted", "pregrant"}

essentialFiles ==
    {"g_assignee_disambiguated", "g_inventor_disambiguated", "g_cpc_at_issue",
     "g_location_disambiguated", "g_us_patent_citation", "g_application",
     "g_patent", "pg_assignee_disambiguated", "pg_inventor_disambiguated",
     "pg_cpc_at_issue", "pg_location_disambiguated",
     "pg_published_application"}

\* the allow-list matched by substring instead of by equality
isEssential_substring(item) ==
    \E file \in essentialFiles : includes(item.table_name, file)

isEssential(item) == item.table_name \in essentialFiles

\* an essential file pushed to Essentials instead of its own category
aggregateStep_exclusive(result, item) ==
    IF item.table_name \in essentialFiles
    THEN [result EXCEPT ![item.type]["Essentials"] = Append(@, item)]
    ELSE LET created == IF item.category \in DOMAIN result[item.type]
                        THEN result
                        ELSE [result EXCEPT
                                ![item.type] = put(@, item.category, <<>>)]
         IN  [created EXCEPT ![item.type][item.category] = Append(@, item)]

\* the body of categorizedItems.forEach: result maps a patent type to an
\* object from category to array
aggregateStep(result, item) ==
    LET created == IF item.category \in DOMAIN result[item.type]
                   THEN result
                   ELSE [result EXCEPT
                           ![item.type] = put(@, item.category, <<>>)]
        pushed == [created EXCEPT
                     ![item.type][item.category] = Append(@, item)]
    IN  IF isEssential(item)
        THEN [pushed EXCEPT ![item.type]["Essentials"] = Append(@, item)]
        ELSE pushed

RECURSIVE aggregateFrom(_, _)
aggregateFrom(result, items) ==
    IF items = <<>> THEN result
    ELSE aggregateFrom(aggregateStep(result, items[1]), Tail(items))

DisambiguationCategories == {"People", "Geography"}

\* the raw sub-bucket forgotten in the test that replaces the array
organizeCategory_onlyDisambiguated(category, items) ==
    IF category \in DisambiguationCategories /\ Len(items) > 0
    THEN LET organized == organizeByDisambiguation(items)
         IN  IF Len(organized.disambiguated) > 0
             THEN organized
             ELSE Flat(items)
    ELSE Flat(items)

\* the bucket stored for a category after the disambiguation pass
organizeCategory(category, items) ==
    IF category \in DisambiguationCategories /\ Len(items) > 0
    THEN LET organized == organizeByDisambiguation(items)
         IN  IF Len(organized.disambiguated) > 0 \/ Len(organized.raw) > 0
             THEN organized
             ELSE Flat(items)
    ELSE Flat(items)

processData(rawData) ==
    CHOOSE organized \in
        {[t \in PatentTypes |->
            [c \in DOMAIN result[t] |-> organizeCategory(c, result[t][c])]] :
         result \in
            {aggregateFrom([t \in PatentTypes |-> ("Essentials" :> <<>>)],
                           categorizedItems) :
             categorizedItems \in
                {[i \in 1..Len(rawData) |-> categorizeItem(rawData[i])]}}} :
        TRUE

(***************************************************************************)
(* Facets                                                                  *)
(***************************************************************************)
\* data[type].Content as an array, empty when the key is absent
contentItems(data, type) ==
    IF "Content" \in DOMAIN data[type] THEN data[type]["Content"].items
    ELSE <<>>

\* the pre-grant Content bucket left out of the years
getAvailableYears_grantedOnly(data) ==
    sortYears({item.year : item \in
                 {i \in Elems(contentItems(data, "granted")) : i.year # null}})

getAvailableYears(data) ==
    sortYears({item.year : item \in
                 {i \in UNION {Elems(contentItems(data, t)) :
                                 t \in PatentTypes} : i.year # null}})

\* the content type not compared
getYearsForContentType_anyType(data, tab, contentType) ==
    IF data = nullObject THEN <<>>
    ELSE sortYears(
            {item.year : item \in
               {i \in Elems(contentItems(data, tab)) : i.year # null}})

getYearsForContentType(data, tab, contentType) ==
    IF data = nullObject THEN <<>>
    ELSE sortYears(
            {item.year : item \in
               {i \in Elems(contentItems(data, tab)) :
                  /\ i.year # null
                  /\ (contentType = "all" \/ i.contentType = contentType)}})

getContentTypes(data) ==
    sortStrings({item.contentType : item \in
                   {i \in UNION {Elems(contentItems(data, t)) :
                                   t \in PatentTypes} : i.contentType # null}})

(***************************************************************************)
(* filterData                                                              *)
(***************************************************************************)
\* the description left out of the text predicate
matchesSearch_nameOnly(item, query) ==
    includes(toLowerCase(item.displayName), toLowerCase(query))

matchesSearch(item, query) ==
    \/ includes(toLowerCase(item.displayName), toLowerCase(query))
    \/ includes(toLowerCase(item.description), toLowerCase(query))

\* a group filtered into one array
filterGrouped_collapse(bucket, query) ==
    LET keep(item) == matchesSearch(item, query)
    IN  Flat(SelectSeq((IF has(bucket, "disambiguated")
                        THEN bucket.disambiguated ELSE <<>>)
                       \o (IF has(bucket, "raw") THEN bucket.raw ELSE <<>>)
                       \o (IF has(bucket, "main") THEN bucket.main ELSE <<>>),
                       keep))

filterGrouped(bucket, query) ==
    LET keep(item) == matchesSearch(item, query)
    IN  [shape         |-> "Grouped",
         disambiguated |-> IF has(bucket, "disambiguated")
                           THEN SelectSeq(bucket.disambiguated, keep) ELSE <<>>,
         raw           |-> IF has(bucket, "raw")
                           THEN SelectSeq(bucket.raw, keep) ELSE <<>>,
         main          |-> IF has(bucket, "main")
                           THEN SelectSeq(bucket.main, keep) ELSE <<>>]

\* the year compared without looking for the "all" sentinel
filterFlat_noSentinel(category, bucket, query, year, contentType) ==
    LET keep(item) ==
            /\ matchesSearch(item, query)
            /\ category = "Content" => item.year = year
            /\ (contentType # "all" /\ category = "Content")
                  => item.contentType = contentType
    IN  Flat(SelectSeq(bucket.items, keep))

filterFlat(category, bucket, query, year, contentType) ==
    LET keep(item) ==
            /\ matchesSearch(item, query)
            /\ (year # "all" /\ category = "Content") => item.year = year
            /\ (contentType # "all" /\ category = "Content")
                  => item.contentType = contentType
    IN  Flat(SelectSeq(bucket.items, keep))

\* the facet tests applied to every array, not to Content alone
filterData_facetsEverywhere(data, tab, query, year, contentType) ==
    IF data = nullObject THEN <<>>
    ELSE [category \in DOMAIN data[tab] |->
            IF ~isArray(data[tab][category])
            THEN filterGrouped(data[tab][category], query)
            ELSE filterFlat("Content", data[tab][category], query, year,
                            contentType)]

filterData(data, tab, query, year, contentType) ==
    IF data = nullObject THEN <<>>
    ELSE [category \in DOMAIN data[tab] |->
            IF ~isArray(data[tab][category])
            THEN filterGrouped(data[tab][category], query)
            ELSE filterFlat(category, data[tab][category], query, year,
                            contentType)]

(***************************************************************************)
(* Category ordering and counts                                            *)
(***************************************************************************)
categoryOrder ==
    <<"Essentials", "General", "People", "Classification", "Legal",
      "Government", "Geography", "Other Documentation", "Citations",
      "Mapping", "Other", "Content">>

\* categoryOrder.indexOf(name), -1 when absent
indexOf(name) ==
    IF \E i \in 1..Len(categoryOrder) : categoryOrder[i] = name
    THEN (CHOOSE i \in 1..Len(categoryOrder) : categoryOrder[i] = name) - 1
    ELSE -1

\* the count of one category of a filtered view
countOf(categoryData) ==
    IF isArray(categoryData) THEN Len(categoryData.items)
    ELSE (IF has(categoryData, "disambiguated")
          THEN Len(categoryData.disambiguated) ELSE 0)
       + (IF has(categoryData, "raw") THEN Len(categoryData.raw) ELSE 0)
       + (IF has(categoryData, "main") THEN Len(categoryData.main) ELSE 0)

\* the categories compared by name
categoryBefore_alphabetical(a, b) == strLess(a.name, b.name)

\* the comparator of sortCategories is a strict total order on the names of
\* categoryOrder, the only names categorizeItem and processData produce, so
\* the sorted array does not depend on the order of Object.keys
categoryBefore(a, b) ==
    IF indexOf(a.name) = -1 /\ indexOf(b.name) = -1 THEN FALSE
    ELSE IF indexOf(a.name) = -1 THEN FALSE
    ELSE IF indexOf(b.name) = -1 THEN TRUE
    ELSE indexOf(a.name) < indexOf(b.name)

sortCategories(categories) ==
    [k \in 1..Cardinality(categories) |->
        CHOOSE x \in categories :
            Cardinality({y \in categories : categoryBefore(y, x)}) = k - 1]

\* the categories without items kept in the list
getCategoriesWithCounts_keepEmpty(filteredData) ==
    sortCategories({[name |-> c, count |-> countOf(filteredData[c])] :
                      c \in DOMAIN filteredData})

getCategoriesWithCounts(filteredData) ==
    sortCategories({cat \in {[name |-> c, count |-> countOf(filteredData[c])] :
                               c \in DOMAIN filteredData} : cat.count > 0})

\* the categories counted, not their items
getTotalFiles_countsCategories(filteredData) == Cardinality(DOMAIN filteredData)

getTotalFiles(filteredData) ==
    LET keys == sortStrings(DOMAIN filteredData)
        sumFrom[i \in 0..Len(keys)] ==
            IF i = 0 THEN 0 ELSE sumFrom[i - 1] + countOf(filteredData[keys[i]])
    IN  sumFrom[Len(keys)]

(***************************************************************************)
(* formatDisplayName                                                       *)
(***************************************************************************)
abbreviations == <<"PCT", "WIPO", "CPC", "IPC", "USPC", "US">>

\* where new RegExp(abbr, 'i') matches in text
matchesAt(text, abbr) ==
    {i \in 1..(Len(text) - Len(abbr) + 1) :
        toUpperCase(SubSeq(text, i, i + Len(abbr) - 1)) = abbr}

\* the regular expression given the g flag: every occurrence replaced
RECURSIVE replaceIgnoringCase_global(_, _)
replaceIgnoringCase_global(text, abbr) ==
    IF matchesAt(text, abbr) = {} THEN text
    ELSE LET i == CHOOSE i \in matchesAt(text, abbr) :
                     \A j \in matchesAt(text, abbr) : i <= j
         IN  SubSeq(text, 1, i - 1) \o abbr
                \o replaceIgnoringCase_global(
                       SubSeq(text, i + Len(abbr), Len(text)), abbr)

\* displayName.replace(new RegExp(abbr, 'i'), abbr)
replaceIgnoringCase(text, abbr) ==
    IF matchesAt(text, abbr) = {} THEN text
    ELSE LET i == CHOOSE i \in matchesAt(text, abbr) :
                     \A j \in matchesAt(text, abbr) : i <= j
         IN  SubSeq(text, 1, i - 1) \o abbr
                \o SubSeq(text, i + Len(abbr), Len(text))

RECURSIVE formatFrom(_, _)
formatFrom(displayName, k) ==
    IF k > Len(abbreviations) THEN displayName
    ELSE formatFrom(replaceIgnoringCase(displayName, abbreviations[k]), k + 1)

formatDisplayName(name) == formatFrom(name, 1)

(***************************************************************************)
(* createMatchedPairs                                                      *)
(***************************************************************************)
\* persistent looked for first
getPersonType_persistentFirst(tableName) ==
    IF includes(tableName, "persistent") THEN "Persistent"
    ELSE IF includes(tableName, "assignee") THEN "Assignee"
    ELSE IF includes(tableName, "attorney") \/ includes(tableName, "lawyer")
         THEN "Attorney"
    ELSE IF includes(tableName, "inventor") THEN "Inventor"
    ELSE IF includes(tableName, "applicant") THEN "Applicant"
    ELSE IF includes(tableName, "examiner") THEN "Examiner"
    ELSE "Other"

getPersonType(tableName) ==
    IF includes(tableName, "assignee") THEN "Assignee"
    ELSE IF includes(tableName, "attorney") \/ includes(tableName, "lawyer")
         THEN "Attorney"
    ELSE IF includes(tableName, "inventor") THEN "Inventor"
    ELSE IF includes(tableName, "applicant") THEN "Applicant"
    ELSE IF includes(tableName, "examiner") THEN "Examiner"
    ELSE IF includes(tableName, "persistent") THEN "Persistent"
    ELSE "Other"

\* the object of arrays, one per person type found, each in file order
groupFilesByType(files) ==
    [personType \in {getPersonType(files[i].table_name) : i \in 1..Len(files)}
        |-> LET ofType(file) == getPersonType(file.table_name) = personType
            IN  SelectSeq(files, ofType)]

createMatchedPairs(disambiguated, raw, main) ==
    LET disGroups == groupFilesByType(disambiguated)
        rawGroups == groupFilesByType(raw)
        mainGroups == groupFilesByType(main)
        allPersonTypes ==
            sortStrings(DOMAIN disGroups \cup DOMAIN rawGroups
                            \cup DOMAIN mainGroups)
        orEmpty(groups, personType) ==
            IF personType \in DOMAIN groups THEN groups[personType] ELSE <<>>
    IN  [k \in 1..Len(allPersonTypes) |->
            [personType    |-> allPersonTypes[k],
             disambiguated |-> orEmpty(disGroups, allPersonTypes[k]),
             raw           |-> orEmpty(rawGroups, allPersonTypes[k]),
             main          |-> orEmpty(mainGroups, allPersonTypes[k])]]

(***************************************************************************)
(* The datasets of links.json and what the user does                       *)
(***************************************************************************)
MaxItems == 2

Descriptor(name, description) ==
    [table_name |-> name, description |-> description]

Pool ==
    <<Descriptor("g_inventor_disambiguated", "Disambiguated inventor data"),
      Descriptor("g_inventor_not_disambiguated", "Raw inventor data"),
      Descriptor("g_persistent_inventor", "Inventor ids over time"),
      Descriptor("g_location_disambiguated", "Disambiguated location data"),
      Descriptor("g_claims_2019", "Claims as disclosed"),
      Descriptor("g_brf_sum_text_2020", "Brief summaries"),
      Descriptor("g_patent_abstract", "Abstracts"),
      Descriptor("pg_claims_2020", "Application claims")>>

\* descriptor sequences with unique identifiers, at most MaxItems long
Inputs ==
    {[i \in 1..Len(ix) |-> Pool[ix[i]]] :
        ix \in {s \in UNION {[1..n -> 1..Len(Pool)] : n \in 0..MaxItems} :
                  \A i, j \in 1..Len(s) : i # j => s[i] # s[j]}}

\* Identifiers for the classifier alone: a prefix, a stem holding the
\* keywords of the rules (alone and combined), and a trailing segment
Prefixes == {"g_", "pg_", ""}

Stems ==
    {"brf_sum_text", "claims", "detail_desc_text", "draw_desc_text",
     "abstract", "brf_sum_text_claims", "claims_abstract",
     "draw_desc_text_detail_desc_text", "inventor_claims", "cpc_abstract",
     "inventor", "attorney", "lawyer", "assignee", "applicant", "examiner",
     "location", "geography", "cpc", "uspc", "ipc", "wipo", "citation",
     "reference", "gov_interest", "federal", "priority", "rel_app", "term",
     "pct", "persistent", "crosswalk", "granted_pgpubs", "figures",
     "botanic", "patent", "application", "other",
     "persistent_inventor", "assignee_location", "geography_wipo",
     "ipc_reference", "us_patent_citation", "federal_citation",
     "gov_interest_priority", "pct_crosswalk", "persistent_figures",
     "botanic_patent", "us_term_of_grant", "published_application",
     "us_application_status", "pct_data", "wipo_ipc_cpc"}

Trailers == {"", "_2019", "_12345", "_201", "_20a9", "_2019_v2"}

Identifiers ==
    {p \o stem \o t : p \in Prefixes, stem \in Stems, t \in Trailers}

ClassifierInputs == {<<Descriptor(id, "Data")>> : id \in Identifiers}

\* The datasets of the catalogs of the histories checked for progress: one
\* of People and three of Content, of two content types, two years and both
\* patent types.
LivePool == <<Pool[1], Pool[5], Pool[6], Pool[8]>>

LiveInputs ==
    {[i \in 1..Len(ix) |-> LivePool[ix[i]]] :
        ix \in {s \in UNION {[1..n -> 1..Len(LivePool)] : n \in 0..MaxItems} :
                  \A i, j \in 1..Len(s) : i # j => s[i] # s[j]}}

\* links.json files of person and location datasets, with one Content
\* dataset for the facet controls
PeoplePool ==
    <<Descriptor("g_assignee_disambiguated", "Disambiguated assignee data"),
      Descriptor("g_assignee_not_disambiguated", "Raw assignee data"),
      Descriptor("g_persistent_inventor", "Inventor ids over time"),
      Descriptor("g_attorney_disambiguated", "Disambiguated attorney data"),
      Descriptor("g_applicant_not_disambiguated", "Raw applicant data"),
      Descriptor("g_location_not_disambiguated", "Raw location data"),
      Descriptor("g_location_lookup", "Location names"),
      Descriptor("g_claims_2019", "Claims as disclosed")>>

PeopleInputs ==
    {[i \in 1..Len(ix) |-> PeoplePool[ix[i]]] :
        ix \in {s \in UNION {[1..n -> 1..Len(PeoplePool)] : n \in 0..MaxItems} :
                  \A i, j \in 1..Len(s) : i # j => s[i] # s[j]}}

\* what the user types into the search box
Queries == {"", "DIS"}

\* the group headers and navigation entries the user clicks
ClickedGroups == {"Content", "People"}

\* how the retrieval of links.json goes: window.fs is absent, reads and
\* parses the file, fails to read it or reads text JSON.parse rejects; the
\* fetch, made unless window.fs gave the array, answers with the array,
\* fails, answers with a status that is not OK or with a body
\* response.json() rejects
FsOutcomes == {"noFs", "fsOk", "fsReadError", "fsParseError"}
FetchOutcomes == {"fetchOk", "networkError", "httpError", "jsonError"}
Outcomes ==
    {<<"fsOk", "notFetched">>}
        \cup ((FsOutcomes \ {"fsOk"}) \X FetchOutcomes)

ContentTypes ==
    {"Abstract", "Brief Summary", "Claims", "Detailed Description",
     "Drawing Description"}

(***************************************************************************)
(* The component                                                           *)
(***************************************************************************)
VARIABLES
    links,                  \* the descriptors links.json holds
    outcome,                \* <<"pending">>, then how the retrieval went and
                            \* how the promise of getRawData settled, then
                            \* <<"consumed">> once loadData has gone on
    rawData,                \* what getRawData resolved to
    data,                   \* the taxonomy, null until loaded
    activeTab,
    search,
    yearFilter,
    contentTypeFilter,
    expandedGroups,
    availableYears,
    filteredYears,
    availableContentTypes,
    scrolledToCategory,
    filteredData,           \* the view computed by the last render
    yearsEffectPending      \* a dependency of the filtered-years effect changed

viewVars == <<activeTab, search, yearFilter, contentTypeFilter>>
facetVars == <<availableYears, filteredYears, availableContentTypes>>
loadVars == <<links, outcome, rawData, data>>
vars == <<loadVars, viewVars, facetVars, expandedGroups, scrolledToCategory,
          filteredData, yearsEffectPending>>

\* the view computed from the year filter of the previous render
Render_staleYear ==
    filteredData' = filterData(data', activeTab', search', yearFilter,
                               contentTypeFilter')

\* every state change re-renders: const filteredData = data ? filterData() : {}
Render ==
    filteredData' = filterData(data', activeTab', search', yearFilter',
                               contentTypeFilter')

categoriesWithCounts == getCategoriesWithCounts(filteredData)
totalFiles == getTotalFiles(filteredData)
renderedNames ==
    {categoriesWithCounts[i].name : i \in 1..Len(categoriesWithCounts)}

\* the rows of a group: createMatchedPairs(files.disambiguated || [],
\* files.raw || [], files.main || [])
matchedPairs(files) ==
    createMatchedPairs(IF has(files, "disambiguated")
                       THEN files.disambiguated ELSE <<>>,
                       IF has(files, "raw") THEN files.raw ELSE <<>>,
                       IF has(files, "main") THEN files.main ELSE <<>>)

\* the cards of the rows: each row shows its disambiguated and its raw
\* files; the main files of a pair are not rendered
RECURSIVE rowCards(_)
rowCards(pairs) ==
    IF pairs = <<>> THEN <<>>
    ELSE pairs[1].disambiguated \o pairs[1].raw \o rowCards(Tail(pairs))

\* the "Other Files" section: the main files whose person type is Other
otherFiles(files) ==
    LET isOther(file) == getPersonType(file.table_name) = "Other"
    IN  IF has(files, "main") THEN SelectSeq(files.main, isOther) ELSE <<>>

\* the file cards of an expanded group, in rendering order
displayedCards(files) == rowCards(matchedPairs(files)) \o otherFiles(files)

\* the component's state after the first render: getRawData is in flight
\* and the filtered-years effect, which runs after every first render, is
\* still to run
Mounted ==
    /\ outcome = <<"pending">>
    /\ rawData = <<>>
    /\ data = nullObject
    /\ activeTab = "granted"
    /\ search = ""
    /\ yearFilter = "all"
    /\ contentTypeFilter = "all"
    /\ expandedGroups = <<>>
    /\ availableYears = <<>>
    /\ filteredYears = <<>>
    /\ availableContentTypes = <<>>
    /\ scrolledToCategory = null
    /\ filteredData = <<>>
    /\ yearsEffectPending = TRUE

Init == links \in Inputs /\ Mounted

\* a settled promise
fulfilled(value) == [status |-> "fulfilled", value |-> value]
rejected == [status |-> "rejected", value |-> <<>>]

\* the catch of the outer try passing the error on
getRawData_rethrows(file, how) ==
    IF how[1] = "fsOk" THEN fulfilled(file)
    ELSE IF how[2] = "fetchOk" THEN fulfilled(file)
    ELSE rejected

\* a fetch that throws not caught
getRawData_rejectsOffline(file, how) ==
    IF how[1] = "fsOk" THEN fulfilled(file)
    ELSE IF how[2] = "fetchOk" THEN fulfilled(file)
    ELSE IF how[2] = "networkError" THEN rejected
    ELSE fulfilled(<<>>)

\* getRawData: the array window.fs gave; otherwise, window.fs being absent
\* or its failure caught by the inner try, the array the fetch gave; an
\* error of the fetch, of the status test or of response.json() is caught
\* by the outer try, which returns []
getRawData(file, how) ==
    IF how[1] = "fsOk" THEN fulfilled(file)
    ELSE IF how[2] = "fetchOk" THEN fulfilled(file)
    ELSE fulfilled(<<>>)

GetRawData(how) ==
    /\ outcome = <<"pending">>
    /\ LET settled == getRawData(links, how)
       IN  /\ outcome' = <<how[1], how[2], settled.status>>
           /\ rawData' = settled.value
    /\ UNCHANGED <<links, data, viewVars, facetVars, expandedGroups,
                   scrolledToCategory, filteredData, yearsEffectPending>>

initialExpandedState(processedData) ==
    [category \in DOMAIN processedData["granted"]
                    \cup DOMAIN processedData["pregrant"] |->
        category # "Content"]

\* loadData after the await; its catch only logs
LoadData ==
    /\ Len(outcome) = 3
    /\ outcome' = <<"consumed">>
    /\ IF outcome[3] = "rejected"
       THEN UNCHANGED <<data, expandedGroups, facetVars, yearsEffectPending>>
       ELSE \E processedData \in {processData(rawData)} :
                /\ data' = processedData
                /\ expandedGroups' = initialExpandedState(processedData)
                /\ availableYears' = getAvailableYears(processedData)
                /\ filteredYears' = getAvailableYears(processedData)
                /\ availableContentTypes' = getContentTypes(processedData)
                /\ yearsEffectPending' = TRUE
    /\ UNCHANGED <<links, rawData, viewVars, scrolledToCategory>>
    /\ Render

\* the effect run again after every run, as if filteredYears were one of
\* its dependencies
YearsEffect_dependsOnFilteredYears ==
    /\ yearsEffectPending
    /\ yearsEffectPending' = TRUE
    /\ IF data # nullObject
       THEN LET years == getYearsForContentType(data, activeTab,
                                                contentTypeFilter)
            IN  /\ filteredYears' = years
                /\ yearFilter' =
                      IF yearFilter # "all" /\ yearFilter \notin Elems(years)
                      THEN "all" ELSE yearFilter
       ELSE UNCHANGED <<filteredYears, yearFilter>>
    /\ UNCHANGED <<loadVars, activeTab, search, contentTypeFilter,
                   availableYears, availableContentTypes, expandedGroups,
                   scrolledToCategory>>
    /\ Render

\* the effect without the reset of a year that is no longer listed
YearsEffect_noReset ==
    /\ yearsEffectPending
    /\ yearsEffectPending' = FALSE
    /\ filteredYears' = getYearsForContentType(data, activeTab,
                                               contentTypeFilter)
    /\ UNCHANGED <<loadVars, viewVars, availableYears, availableContentTypes,
                   expandedGroups, scrolledToCategory>>
    /\ Render

\* useEffect(..., [contentTypeFilter, data, activeTab, yearFilter])
YearsEffect ==
    /\ yearsEffectPending
    /\ IF data # nullObject
       THEN LET years == getYearsForContentType(data, activeTab,
                                                contentTypeFilter)
            IN  /\ filteredYears' = years
                /\ IF yearFilter # "all" /\ yearFilter \notin Elems(years)
                   THEN yearFilter' = "all" /\ yearsEffectPending' = TRUE
                   ELSE yearFilter' = yearFilter /\ yearsEffectPending' = FALSE
       ELSE /\ yearsEffectPending' = FALSE
            /\ UNCHANGED <<filteredYears, yearFilter>>
    /\ UNCHANGED <<loadVars, activeTab, search, contentTypeFilter,
                   availableYears, availableContentTypes, expandedGroups,
                   scrolledToCategory>>
    /\ Render

\* the controls rendered while the taxonomy is still null
interactive_beforeLoad == ~yearsEffectPending /\ scrolledToCategory = null

\* the controls exist once the taxonomy does, and an event is handled after
\* the effects of the previous render have run; the user's next event comes
\* after the 100 ms timeout that resets scrolledToCategory
interactive ==
    data # nullObject /\ ~yearsEffectPending /\ scrolledToCategory = null

\* the filter controls of the Content group
showContentFilters ==
    /\ "Content" \in renderedNames
    /\ "Content" \in DOMAIN expandedGroups
    /\ expandedGroups["Content"] = TRUE

\* the search keeping its result as the taxonomy
SetSearch_filtersTaxonomy(value) ==
    /\ interactive
    /\ search' = value
    /\ data' = put(data, activeTab,
                   filterData(data, activeTab, value, yearFilter,
                              contentTypeFilter))
    /\ UNCHANGED <<links, outcome, rawData, activeTab, yearFilter,
                   contentTypeFilter, facetVars, expandedGroups,
                   scrolledToCategory, yearsEffectPending>>
    /\ Render

\* onChange of the search box
SetSearch(value) ==
    /\ interactive
    /\ search' = value
    /\ UNCHANGED <<loadVars, activeTab, yearFilter, contentTypeFilter,
                   facetVars, expandedGroups, scrolledToCategory,
                   yearsEffectPending>>
    /\ Render

\* the handler without the reset of the content-type filter
handleTabChange_keepsContentType(tab) ==
    /\ interactive
    /\ activeTab' = tab
    /\ yearFilter' = "all"
    /\ yearsEffectPending' = (tab # activeTab \/ yearFilter # "all")
    /\ UNCHANGED <<loadVars, search, contentTypeFilter, facetVars,
                   expandedGroups, scrolledToCategory>>
    /\ Render

handleTabChange(tab) ==
    /\ interactive
    /\ activeTab' = tab
    /\ yearFilter' = "all"
    /\ contentTypeFilter' = "all"
    /\ yearsEffectPending' =
          (tab # activeTab \/ yearFilter # "all" \/ contentTypeFilter # "all")
    /\ UNCHANGED <<loadVars, search, facetVars, expandedGroups,
                   scrolledToCategory>>
    /\ Render

toggleGroup(groupName) ==
    /\ interactive
    /\ groupName \in renderedNames
    /\ expandedGroups' =
          put(expandedGroups, groupName,
              ~(groupName \in DOMAIN expandedGroups
                  /\ expandedGroups[groupName]))
    /\ UNCHANGED <<loadVars, viewVars, facetVars, scrolledToCategory,
                   yearsEffectPending>>
    /\ Render

handleContentTypeChange(type) ==
    /\ interactive
    /\ showContentFilters
    /\ Len(availableContentTypes) > 0
    /\ type \in {"all"} \cup Elems(availableContentTypes)
    /\ contentTypeFilter' = type
    /\ yearsEffectPending' = (type # contentTypeFilter)
    /\ UNCHANGED <<loadVars, activeTab, search, yearFilter, facetVars,
                   expandedGroups, scrolledToCategory>>
    /\ Render

\* onChange of the year dropdown
SetYearFilter(value) ==
    /\ interactive
    /\ showContentFilters
    /\ Len(filteredYears) > 0
    /\ value \in {"all"} \cup Elems(filteredYears)
    /\ yearFilter' = value
    /\ yearsEffectPending' = (value # yearFilter)
    /\ UNCHANGED <<loadVars, activeTab, search, contentTypeFilter, facetVars,
                   expandedGroups, scrolledToCategory>>
    /\ Render

\* onClick of a sidebar or quick-navigation entry
NavigateTo(name) ==
    /\ interactive
    /\ name \in renderedNames
    /\ scrolledToCategory' = name
    /\ expandedGroups' = put(expandedGroups, name, TRUE)
    /\ UNCHANGED <<loadVars, viewVars, facetVars, yearsEffectPending>>
    /\ Render

\* the timeout of the scroll effect
ResetScrolled ==
    /\ scrolledToCategory # null
    /\ scrolledToCategory' = null
    /\ UNCHANGED <<loadVars, viewVars, facetVars, expandedGroups,
                   yearsEffectPending>>
    /\ Render

Next ==
    \/ \E how \in Outcomes : GetRawData(how)
    \/ LoadData
    \/ YearsEffect
    \/ \E value \in Queries : SetSearch(value)
    \/ \E tab \in PatentTypes : handleTabChange(tab)
    \/ \E groupName \in ClickedGroups : toggleGroup(groupName)
    \/ \E type \in {"all"} \cup ContentTypes : handleContentTypeChange(type)
    \/ \E value \in {"all"} \cup Elems(filteredYears) : SetYearFilter(value)
    \/ \E name \in ClickedGroups : NavigateTo(name)
    \/ ResetScrolled

Spec == Init /\ [][Next]_vars

InitLive == links \in LiveInputs /\ Mounted

\* The promise of getRawData settles, the continuation of loadData runs
\* when it has, and React runs the effects of a render.
SpecLive ==
    /\ InitLive
    /\ [][Next]_vars
    /\ WF_vars(\E how \in Outcomes : GetRawData(how))
    /\ WF_vars(LoadData)
    /\ WF_vars(YearsEffect)

\* the component loading a links.json of one dataset, for the classifier
InitClassifier == links \in ClassifierInputs /\ Mounted

SpecClassifier == InitClassifier /\ [][Next]_vars

\* the component loading a links.json of person and location datasets
InitPeople == links \in PeopleInputs /\ Mounted

SpecPeople == InitPeople /\ [][Next]_vars

(***************************************************************************)
(* Properties                                                              *)
(***************************************************************************)
loaded == data # nullObject

\* the items of a bucket, sub-sequence after sub-sequence
field(bucket, name) == IF has(bucket, name) THEN bucket[name] ELSE <<>>
itemsOf(bucket) ==
    IF isArray(bucket) THEN bucket.items
    ELSE field(bucket, "disambiguated") \o field(bucket, "raw")
            \o field(bucket, "main")

\* every classified item the taxonomy holds
TaxonomyItems ==
    IF loaded
    THEN UNION {UNION {Elems(itemsOf(data[t][c])) : c \in DOMAIN data[t]} :
                  t \in PatentTypes}
    ELSE {}

\* the label of the first rule of an ordered rule list one of whose
\* keywords the name contains, otherwise the fallback
firstMatch(rules, name, fallback) ==
    LET hits == {i \in 1..Len(rules) :
                   \E k \in rules[i].keywords :
                      \E j \in 1..(Len(name) - Len(k) + 1) :
                         SubSeq(name, j, j + Len(k) - 1) = k}
    IN  IF hits = {} THEN fallback
        ELSE rules[CHOOSE i \in hits : \A j \in hits : i <= j].label

Rule(keywords, label) == [keywords |-> keywords, label |-> label]

ContentRules ==
    <<Rule({"brf_sum_text_"}, "Brief Summary"),
      Rule({"claims_"}, "Claims"),
      Rule({"detail_desc_text_"}, "Detailed Description"),
      Rule({"draw_desc_text_"}, "Drawing Description"),
      Rule({"abstract"}, "Abstract")>>

FunctionalRules ==
    <<Rule({"inventor", "attorney", "lawyer", "assignee", "applicant",
            "examiner"}, "People"),
      Rule({"location", "geography"}, "Geography"),
      Rule({"cpc", "uspc", "ipc", "wipo"}, "Classification"),
      Rule({"citation", "reference"}, "Citations"),
      Rule({"gov_interest", "federal"}, "Government"),
      Rule({"priority", "rel_", "term", "pct"}, "Legal"),
      Rule({"persistent", "crosswalk", "granted_pgpubs"}, "Mapping"),
      Rule({"figures", "botanic"}, "Other Documentation"),
      Rule({"patent", "application"}, "General")>>

\* the bucket of the taxonomy an item sits in
bucketsOf(item) ==
    {c \in (DOMAIN data[item.type]) \ {"Essentials"} :
        item \in Elems(itemsOf(data[item.type][c]))}

\* C4: contentType is the label of the first matching content pattern in
\* the order brf_sum_text_, claims_, detail_desc_text_, draw_desc_text_,
\* abstract, and an item is in the Content category exactly when it has a
\* contentType, whatever functional-area keyword its identifier contains
C4_ContentTypeFirstMatch ==
    \A item \in TaxonomyItems :
        /\ item.contentType = firstMatch(ContentRules, item.table_name, null)
        /\ (item.category = "Content") <=> (item.contentType # null)
        /\ item.contentType # null => bucketsOf(item) = {"Content"}

\* a Content item whose identifier also holds a People keyword and two
\* content patterns has been classified
C4_Witness ==
    \E item \in TaxonomyItems :
        /\ item.category = "Content"
        /\ \/ includes(item.table_name, "inventor")
           \/ /\ includes(item.table_name, "brf_sum_text_")
              /\ includes(item.table_name, "claims_")

\* C5: without a contentType the category is that of the first matching
\* rule of the chain People, Geography, Classification, Citations,
\* Government, Legal, Mapping, Other Documentation, General, and Other when
\* none matches; every identifier gets a category
C5_FunctionalChain ==
    /\ \A item \in TaxonomyItems :
          /\ item.contentType = null =>
                item.category =
                    firstMatch(FunctionalRules, item.table_name, "Other")
          /\ bucketsOf(item) = {item.category}
    /\ loaded => Cardinality(TaxonomyItems) = Len(rawData)

\* an identifier matching the rules of two functional areas got the earlier
C5_Witness ==
    \E item \in TaxonomyItems :
        /\ item.category = "People"
        /\ includes(item.table_name, "persistent")

\* the identifier ends in "_" and exactly four digits
endsInYear(name) ==
    /\ Len(name) >= 5
    /\ CharAt(name, Len(name) - 4) = "_"
    /\ \A i \in 1..4 : CharAt(name, Len(name) - 4 + i) \in Digits

\* C6: year is present only with a contentType, and then it is the four
\* digits of a trailing "_dddd"; any other trailing segment leaves the year
\* unset
C6_YearOnlyTrailingFourDigits ==
    \A item \in TaxonomyItems :
        /\ item.year # null => item.contentType # null
        /\ item.year # null =>
              /\ endsInYear(item.table_name)
              /\ item.year = SubSeq(item.table_name,
                                    Len(item.table_name) - 3,
                                    Len(item.table_name))
        /\ (item.contentType # null /\ item.year = null) =>
              ~endsInYear(item.table_name)

\* a Content item whose trailing segment has five digits was classified
\* and has no year
C6_Witness ==
    \E item \in TaxonomyItems :
        /\ item.contentType # null
        /\ item.year = null
        /\ \A i \in 0..4 :
              CharAt(item.table_name, Len(item.table_name) - i) \in Digits

\* the active patent type's part of the taxonomy
activeData == data[activeTab]

groupedCategories(obj) == {c \in DOMAIN obj : ~isArray(obj[c])}

\* C1: the view has the category key set of the active patent type's
\* taxonomy, and every category has the shape it has there: Grouped stays
\* Grouped, with its three sub-sequences, and Flat stays Flat
C1_ShapePreserved ==
    loaded =>
        /\ DOMAIN filteredData = DOMAIN activeData
        /\ \A c \in DOMAIN filteredData :
              /\ isArray(filteredData[c]) <=> isArray(activeData[c])
              /\ ~isArray(filteredData[c]) =>
                    DOMAIN filteredData[c] =
                        {"shape", "disambiguated", "raw", "main"}
              /\ isArray(filteredData[c]) =>
                    DOMAIN filteredData[c] = {"shape", "items"}

\* a Grouped category that a search has emptied in part is still Grouped
C1_Witness ==
    /\ loaded
    /\ search # ""
    /\ \E c \in groupedCategories(activeData) :
          /\ ~isArray(filteredData[c])
          /\ countOf(filteredData[c]) < countOf(activeData[c])

\* C2: with an empty query and both facets "all" every category of the view
\* holds the items of the taxonomy's category in the same order, Grouped
\* categories sub-sequence by sub-sequence
C2_IdentityFilter ==
    (loaded /\ search = "" /\ yearFilter = "all" /\ contentTypeFilter = "all")
    => /\ DOMAIN filteredData = DOMAIN activeData
       /\ \A c \in DOMAIN activeData :
             IF isArray(activeData[c])
             THEN filteredData[c].items = activeData[c].items
             ELSE \A f \in {"disambiguated", "raw", "main"} :
                     field(filteredData[c], f) = field(activeData[c], f)

\* the unfiltered view of a taxonomy with a Grouped category and Content
C2_Witness ==
    /\ loaded
    /\ search = "" /\ yearFilter = "all" /\ contentTypeFilter = "all"
    /\ groupedCategories(activeData) # {}
    /\ "Content" \in DOMAIN activeData
    /\ Len(filteredData["Content"].items) > 0

\* the patent type an identifier's prefix gives
typeByPrefix(name) ==
    IF Len(name) >= 3 /\ SubSeq(name, 1, 3) = "pg_" THEN "pregrant"
    ELSE "granted"

\* how often a sequence of items holds the identifier
occurrences(items, name) ==
    Cardinality({i \in 1..Len(items) : items[i].table_name = name})

\* the sum of the counts of the categories other than Essentials
naturalCount(obj) ==
    LET keys == sortStrings(DOMAIN obj \ {"Essentials"})
        sumFrom[i \in 0..Len(keys)] ==
            IF i = 0 THEN 0 ELSE sumFrom[i - 1] + countOf(obj[keys[i]])
    IN  sumFrom[Len(keys)]

\* C3: every input item sits under the patent type of its prefix, in
\* exactly one category other than Essentials and once there, so the counts
\* of those categories add up to the number of input items of the type
C3_NaturalPartition ==
    loaded =>
        /\ \A i \in 1..Len(rawData) :
              LET name == rawData[i].table_name
                  places == {tc \in PatentTypes \X Elems(categoryOrder) :
                               /\ tc[2] # "Essentials"
                               /\ tc[2] \in DOMAIN data[tc[1]]
                               /\ occurrences(itemsOf(data[tc[1]][tc[2]]), name) > 0}
              IN  /\ Cardinality(places) = 1
                  /\ \A tc \in places :
                        /\ tc[1] = typeByPrefix(name)
                        /\ occurrences(itemsOf(data[tc[1]][tc[2]]), name) = 1
        /\ \A t \in PatentTypes :
              naturalCount(data[t]) =
                  Cardinality({i \in 1..Len(rawData) :
                                 typeByPrefix(rawData[i].table_name) = t})

\* a taxonomy built from a granted essential file and a pre-grant file
C3_Witness ==
    /\ loaded
    /\ Len(data["granted"]["Essentials"].items) = 1
    /\ naturalCount(data["granted"]) = 1
    /\ naturalCount(data["pregrant"]) = 1

\* C7: Essentials exists for both patent types, holds exactly the input
\* items of the type whose identifier equals an entry of the allow-list, and
\* each of them is also in its own category
C7_EssentialsOverlay ==
    loaded =>
        \A t \in PatentTypes :
            /\ "Essentials" \in DOMAIN data[t]
            /\ isArray(data[t]["Essentials"])
            /\ {item.table_name : item \in Elems(data[t]["Essentials"].items)}
                 = {d.table_name : d \in
                      {d \in Elems(rawData) :
                         /\ \E file \in essentialFiles : d.table_name = file
                         /\ typeByPrefix(d.table_name) = t}}
            /\ \A item \in Elems(data[t]["Essentials"].items) :
                  /\ item.category # "Essentials"
                  /\ item.category \in DOMAIN data[t]
                  /\ item \in Elems(itemsOf(data[t][item.category]))

\* an essential file is in Essentials and in People, a file whose
\* identifier only contains an allow-list entry is not, and the pre-grant
\* Essentials is empty
C7_Witness ==
    /\ loaded
    /\ Len(data["granted"]["Essentials"].items) = 1
    /\ data["pregrant"]["Essentials"].items = <<>>
    /\ "People" \in DOMAIN data["granted"]
    /\ \E d \in Elems(rawData) :
          /\ d.table_name \notin essentialFiles
          /\ includes(d.table_name, "g_patent")

\* the identifier carries a disambiguation marker
marked(item) ==
    \/ includes(item.table_name, "_disambiguated")
    \/ includes(item.table_name, "_not_disambiguated")

\* C8: only People and Geography are ever Grouped, every other category is
\* Flat, and People or Geography is Grouped exactly when one of its items
\* contains _disambiguated or _not_disambiguated
C8_OnlyPeopleGeographyGrouped ==
    loaded =>
        \A t \in PatentTypes : \A c \in DOMAIN data[t] :
            /\ c \notin {"People", "Geography"} => isArray(data[t][c])
            /\ c \in {"People", "Geography"} =>
                  (~isArray(data[t][c]) <=>
                      \E item \in Elems(itemsOf(data[t][c])) : marked(item))

\* People holds only a raw file and is Grouped
C8_Witness ==
    /\ loaded
    /\ "People" \in DOMAIN data["granted"]
    /\ ~isArray(data["granted"]["People"])
    /\ data["granted"]["People"].disambiguated = <<>>
    /\ Len(data["granted"]["People"].raw) = 1

\* the Grouped buckets the taxonomy stores
GroupedBuckets ==
    IF loaded
    THEN {data[tc[1]][tc[2]] :
            tc \in {tc \in PatentTypes \X Elems(categoryOrder) :
                      /\ tc[2] \in DOMAIN data[tc[1]]
                      /\ ~isArray(data[tc[1]][tc[2]])}}
    ELSE {}

\* C9 as claimed: every Grouped bucket of the taxonomy holds disambiguated,
\* raw and main, main being an empty sequence when no item falls into it
C9_GroupedHoldsAllThree ==
    \A bucket \in GroupedBuckets :
        /\ has(bucket, "disambiguated")
        /\ has(bucket, "raw")
        /\ has(bucket, "main")

\* C9 as amended: every Grouped bucket of the taxonomy holds disambiguated
\* and raw; it holds main only when an item fell into it, and then main is
\* not empty; the Grouped categories of the view hold all three
C9_GroupedMainOnlyWhenUsed ==
    /\ \A bucket \in GroupedBuckets :
          /\ has(bucket, "disambiguated")
          /\ has(bucket, "raw")
          /\ has(bucket, "main") => Len(bucket.main) > 0
          /\ has(bucket, "main") <=>
                \E item \in Elems(itemsOf(bucket)) : ~marked(item)
    /\ loaded =>
          \A c \in groupedCategories(filteredData) :
              /\ has(filteredData[c], "disambiguated")
              /\ has(filteredData[c], "raw")
              /\ has(filteredData[c], "main")

\* a Grouped bucket without main in the taxonomy, shown with an empty main
C9_Witness ==
    /\ loaded
    /\ \E c \in groupedCategories(activeData) :
          /\ ~has(activeData[c], "main")
          /\ filteredData[c].main = <<>>

\* text contains query, letter case aside
containsIgnoringCase(text, query) ==
    \E i \in 0..(Len(text) - Len(query)) :
        \A k \in 1..Len(query) :
            LowerChar(CharAt(text, i + k)) = LowerChar(CharAt(query, k))

\* C10: the Content category of the view is the Content bucket of the
\* taxonomy restricted, in order, to the items whose displayName or
\* description contains the query, letter case aside, whose year is
\* yearFilter unless that is "all", and whose contentType is
\* contentTypeFilter unless that is "all"
C10_ContentFilter ==
    (loaded /\ "Content" \in DOMAIN activeData) =>
        LET passes(item) ==
                /\ \/ containsIgnoringCase(item.displayName, search)
                   \/ containsIgnoringCase(item.description, search)
                /\ yearFilter = "all" \/ item.year = yearFilter
                /\ contentTypeFilter = "all"
                      \/ item.contentType = contentTypeFilter
        IN  /\ isArray(filteredData["Content"])
            /\ filteredData["Content"].items =
                  SelectSeq(activeData["Content"].items, passes)

\* query, year and content type are all set and keep one Content item, by
\* its description, out of two
C10_Witness ==
    /\ loaded
    /\ search # "" /\ yearFilter # "all" /\ contentTypeFilter # "all"
    /\ "Content" \in DOMAIN activeData
    /\ Len(activeData["Content"].items) = 2
    /\ Len(filteredData["Content"].items) = 1
    /\ ~containsIgnoringCase(filteredData["Content"].items[1].displayName,
                             search)

\* C11: whatever yearFilter and contentTypeFilter are, every category of
\* the view other than Content holds the items of the taxonomy's category
\* that pass the text predicate, and no others: Essentials and every other
\* Flat category as a whole, a Grouped category sub-sequence by sub-sequence
C11_FacetsTouchOnlyContent ==
    loaded =>
        \A c \in (DOMAIN activeData) \ {"Content"} :
            LET passes(item) ==
                    \/ containsIgnoringCase(item.displayName, search)
                    \/ containsIgnoringCase(item.description, search)
            IN  IF isArray(activeData[c])
                THEN filteredData[c].items =
                        SelectSeq(activeData[c].items, passes)
                ELSE \A f \in {"disambiguated", "raw", "main"} :
                        field(filteredData[c], f) =
                            SelectSeq(field(activeData[c], f), passes)

\* a year and a content type are selected while the view shows a Flat
\* category other than Content with an item that has neither
C11_Witness ==
    /\ loaded
    /\ yearFilter # "all" /\ contentTypeFilter # "all"
    /\ \E c \in (DOMAIN activeData) \ {"Content"} :
          /\ isArray(activeData[c])
          /\ Len(filteredData[c].items) > 0
          /\ filteredData[c].items[1].year = null

\* the Content items the taxonomy holds under either patent type
AllContentItems ==
    UNION {Elems(contentItems(data, t)) : t \in PatentTypes}

\* the content type labels in alphabetical order
Alphabetical ==
    <<"Abstract", "Brief Summary", "Claims", "Detailed Description",
      "Drawing Description">>
alphabeticalRank(label) ==
    CHOOSE i \in 1..Len(Alphabetical) : Alphabetical[i] = label

\* C12: the available years are exactly the years on the Content items of
\* either patent type, each once, in numerically descending order, and the
\* available content types are exactly the content types on those items,
\* each once, in ascending alphabetical order
C12_FacetLists ==
    loaded =>
        /\ Elems(availableYears) =
              {item.year : item \in {i \in AllContentItems : i.year # null}}
        /\ \A i, j \in 1..Len(availableYears) :
              i < j => toNumber(availableYears[i]) > toNumber(availableYears[j])
        /\ Elems(availableContentTypes) =
              {item.contentType : item \in AllContentItems}
        /\ \A i, j \in 1..Len(availableContentTypes) :
              i < j => alphabeticalRank(availableContentTypes[i])
                         < alphabeticalRank(availableContentTypes[j])
        /\ availableYears = getAvailableYears(data)
        /\ availableContentTypes = getContentTypes(data)

\* the earlier year comes first in links.json and the later one is on a
\* pre-grant item; both items have the same content type
C12_Witness ==
    /\ loaded
    /\ Len(rawData) = 2
    /\ Len(contentItems(data, "granted")) = 1
    /\ Len(contentItems(data, "pregrant")) = 1
    /\ contentItems(data, "granted")[1].year # null
    /\ contentItems(data, "pregrant")[1].year # null
    /\ toNumber(contentItems(data, "granted")[1].year)
          < toNumber(contentItems(data, "pregrant")[1].year)
    /\ rawData[1].table_name = contentItems(data, "granted")[1].table_name
    /\ Len(availableYears) = 2
    /\ Len(availableContentTypes) = 1

\* C13: for "all" the years of a content type are the years on the items
\* of the patent type's Content bucket, for a content type c they are the
\* years on the items of that bucket whose contentType is c; so the years
\* for c are among the years for "all", and these among the available years
C13_YearsForContentType ==
    loaded =>
        \A t \in PatentTypes :
            LET bucket == Elems(contentItems(data, t))
                forAll == Elems(getYearsForContentType(data, t, "all"))
            IN  /\ forAll = {i.year : i \in {i \in bucket : i.year # null}}
                /\ forAll \subseteq Elems(getAvailableYears(data))
                /\ \A c \in ContentTypes :
                      LET forType ==
                              Elems(getYearsForContentType(data, t, c))
                      IN  /\ forType =
                                {i.year : i \in
                                   {i \in bucket : /\ i.year # null
                                                   /\ i.contentType = c}}
                          /\ forType \subseteq forAll

\* a content type is selected and the year list the effect has set is
\* shorter than the patent type's year list
C13_Witness ==
    /\ loaded
    /\ ~yearsEffectPending
    /\ contentTypeFilter # "all"
    /\ filteredYears =
          getYearsForContentType(data, activeTab, contentTypeFilter)
    /\ Len(filteredYears) = 1
    /\ Len(getYearsForContentType(data, activeTab, "all")) = 2

\* the fixed priority of the categories
Priority ==
    <<"Essentials", "General", "People", "Classification", "Legal",
      "Government", "Geography", "Other Documentation", "Citations",
      "Mapping", "Other", "Content">>
priorityOf(name) == CHOOSE i \in 1..Len(Priority) : Priority[i] = name

\* C14: the listed categories are categories of the fixed priority, appear
\* in its relative order, and Content is the last entry whenever it is
\* listed
C14_PriorityOrder ==
    \A list \in {categoriesWithCounts} :
        /\ \A i \in 1..Len(list) : list[i].name \in Elems(Priority)
        /\ \A i, j \in 1..Len(list) :
              i < j => priorityOf(list[i].name) < priorityOf(list[j].name)
        /\ (\E i \in 1..Len(list) : list[i].name = "Content")
              => list[Len(list)].name = "Content"

\* Essentials, a functional category and Content are listed, built from a
\* links.json whose first dataset is the Content one
C14_Witness ==
    /\ loaded
    /\ Len(categoriesWithCounts) = 3
    /\ categoriesWithCounts[1].name = "Essentials"
    /\ categoriesWithCounts[3].name = "Content"
    /\ categorizeItem(rawData[1]).category = "Content"

\* C15: the count of a category of the view is the length of a Flat
\* category and the sum of the lengths of disambiguated, raw and main of a
\* Grouped one; a category is listed, with that count, exactly when the
\* count exceeds zero, and a category without items is still a key of the
\* view
C15_CountsAndListing ==
    LET counted(c) ==
            IF isArray(filteredData[c]) THEN Len(filteredData[c].items)
            ELSE Len(filteredData[c].disambiguated)
                    + Len(filteredData[c].raw) + Len(filteredData[c].main)
    IN  \A list \in {categoriesWithCounts} :
            /\ \A c \in DOMAIN filteredData :
                  Cardinality({i \in 1..Len(list) : list[i].name = c})
                      = IF counted(c) > 0 THEN 1 ELSE 0
            /\ \A i \in 1..Len(list) :
                  /\ list[i].name \in DOMAIN filteredData
                  /\ list[i].count = counted(list[i].name)
            /\ loaded => DOMAIN filteredData = DOMAIN activeData

\* a Grouped category is listed with the count of two of its
\* sub-sequences while an emptied category of the view is not listed
C15_Witness ==
    /\ loaded
    /\ \E i \in 1..Len(categoriesWithCounts) :
          LET c == categoriesWithCounts[i].name
          IN  /\ ~isArray(filteredData[c])
              /\ categoriesWithCounts[i].count = 2
              /\ Len(filteredData[c].disambiguated) < 2
              /\ Len(filteredData[c].raw) < 2
              /\ Len(filteredData[c].main) < 2
    /\ \E c \in DOMAIN filteredData :
          countOf(filteredData[c]) = 0 /\ c \notin renderedNames

\* C16: once the taxonomy is built no step changes it, nor the descriptors
\* it was built from: every bucket keeps its items in their order, and a
\* step only yields the view filterData computes from that taxonomy
C16_TaxonomyFrozen ==
    [][loaded =>
          /\ data' = data
          /\ rawData' = rawData
          /\ filteredData' = filterData(data, activeTab', search',
                                        yearFilter', contentTypeFilter')]_vars

\* after a search, a tab switch back, a content type and a year selection
\* and a group toggle the taxonomy is the one processData built, and the
\* view holds fewer datasets than it
C16_Witness ==
    /\ loaded
    /\ data = processData(rawData)
    /\ search # "" /\ yearFilter # "all" /\ contentTypeFilter # "all"
    /\ expandedGroups # initialExpandedState(data)
    /\ totalFiles < getTotalFiles(filterData(data, activeTab, "", "all", "all"))

\* C17: whatever the history of events, of expansions and of scrolling, and
\* however links.json was retrieved, the taxonomy is the one processData
\* gives for the descriptors retrieved, and the view is the one filterData
\* gives for the current taxonomy, patent type, query, year and content
\* type; the category list and the total are computed from that view and
\* from nothing else
C17_FunctionOfCurrentInputs ==
    /\ loaded => data = processData(rawData)
    /\ filteredData = filterData(data, activeTab, search, yearFilter,
                                 contentTypeFilter)

\* a view a year selection has narrowed, reached by expanding Content,
\* selecting the year and collapsing Content again
C17_Witness ==
    /\ loaded
    /\ ~yearsEffectPending
    /\ yearFilter # "all"
    /\ expandedGroups["Content"] = FALSE
    /\ filteredData # filterData(data, activeTab, search, "all",
                                 contentTypeFilter)

\* the retrieval failed: window.fs did not give the array and the fetch
\* did not either
retrievalFailed ==
    Len(outcome) = 3 /\ outcome[1] # "fsOk" /\ outcome[2] # "fetchOk"

\* C18: however the retrieval goes the promise of getRawData is fulfilled,
\* never rejected; when the local read is absent or fails and the fetch
\* throws, answers with a status that is not OK or with unparsable JSON, it
\* is fulfilled with the empty sequence, and otherwise with the descriptors
C18_FailureGivesEmpty ==
    Len(outcome) = 3 =>
        /\ outcome[3] = "fulfilled"
        /\ retrievalFailed => rawData = <<>>
        /\ ~retrievalFailed => rawData = links

\* the local read failed, the fetch answered with a status that is not OK,
\* and links.json is not empty
C18_Witness ==
    /\ Len(outcome) = 3
    /\ outcome[1] = "fsReadError"
    /\ outcome[2] = "httpError"
    /\ links # <<>>
    /\ rawData = <<>>

\* C19: loadData builds a taxonomy from an empty descriptor sequence, and
\* that taxonomy holds no item under either patent type; there are no
\* years and no content types, and for both patent types, whatever the
\* query, the category list is empty and the total is 0
C19_EmptyInput ==
    /\ (outcome = <<"consumed">> /\ rawData = <<>>) => loaded
    /\ (loaded /\ rawData = <<>>) =>
          /\ \A t \in PatentTypes : \A c \in DOMAIN data[t] :
                itemsOf(data[t][c]) = <<>>
          /\ availableYears = <<>>
          /\ filteredYears = <<>>
          /\ availableContentTypes = <<>>
          /\ categoriesWithCounts = <<>>
          /\ totalFiles = 0
          /\ \A t \in PatentTypes :
                LET view == filterData(data, t, search, yearFilter,
                                       contentTypeFilter)
                IN  /\ getCategoriesWithCounts(view) = <<>>
                    /\ getTotalFiles(view) = 0

\* the retrieval of a links.json with datasets failed, the taxonomy was
\* built from the empty sequence, and the user has switched to the
\* pre-grant tab
C19_Witness ==
    /\ loaded
    /\ rawData = <<>>
    /\ links # <<>>
    /\ activeTab = "pregrant"
    /\ ~yearsEffectPending

\* C20: while data is null the view is empty, with no category listed and
\* a total of 0, the filtered-years effect has left filteredYears empty and
\* yearFilter "all", and no control of the catalog has been operated, the
\* loading view having none; so categories and counts are there only once
\* the taxonomy is
C20_DeferredUntilLoaded ==
    data = nullObject =>
        /\ filteredData = <<>>
        /\ categoriesWithCounts = <<>>
        /\ totalFiles = 0
        /\ filteredYears = <<>>
        /\ yearFilter = "all"
        /\ availableYears = <<>> /\ availableContentTypes = <<>>
        /\ activeTab = "granted" /\ search = "" /\ contentTypeFilter = "all"
        /\ expandedGroups = <<>> /\ scrolledToCategory = null

\* the filtered-years effect has run and getRawData has given datasets,
\* but loadData has not yet set the taxonomy
C20_Witness ==
    /\ data = nullObject
    /\ ~yearsEffectPending
    /\ Len(outcome) = 3
    /\ rawData # <<>>

\* the datasets of links.json that the classifier puts under a patent
\* type and category, in the order of links.json
originalBucket(t, c) ==
    LET classified == [i \in 1..Len(rawData) |-> categorizeItem(rawData[i])]
        there(item) == item.type = t /\ item.category = c
    IN  SelectSeq(classified, there)

\* C21: in every Grouped bucket raw holds the items of the original bucket
\* whose identifier contains _not_disambiguated, disambiguated those of the
\* others whose identifier contains _disambiguated, and main the rest, each
\* in the order of the original bucket; so no _not_disambiguated item is in
\* disambiguated and every item is in exactly one sub-sequence, once
C21_SplitterPartition ==
    loaded =>
        \A t \in PatentTypes : \A c \in groupedCategories(data[t]) :
            \A original \in {originalBucket(t, c)} :
                LET isRaw(item) ==
                        includes(item.table_name, "_not_disambiguated")
                    isDisambiguated(item) ==
                        /\ ~isRaw(item)
                        /\ includes(item.table_name, "_disambiguated")
                    isMain(item) == ~isRaw(item) /\ ~isDisambiguated(item)
                    bucket == data[t][c]
                IN  /\ bucket.raw = SelectSeq(original, isRaw)
                    /\ bucket.disambiguated =
                          SelectSeq(original, isDisambiguated)
                    /\ field(bucket, "main") = SelectSeq(original, isMain)
                    /\ \A item \in Elems(bucket.disambiguated) :
                          ~includes(item.table_name, "_not_disambiguated")
                    /\ Len(bucket.raw) + Len(bucket.disambiguated)
                          + Len(field(bucket, "main")) = Len(original)

\* a raw file that precedes a disambiguated file in links.json: both are
\* in the People group, each in its own sub-sequence
C21_Witness ==
    /\ loaded
    /\ Len(rawData) = 2
    /\ includes(rawData[1].table_name, "_not_disambiguated")
    /\ ~includes(rawData[2].table_name, "_not_disambiguated")
    /\ "People" \in groupedCategories(data["granted"])
    /\ Len(data["granted"]["People"].raw) = 1
    /\ Len(data["granted"]["People"].disambiguated) = 1

\* the roles, first match first, and their alphabetical order
RoleRules ==
    <<Rule({"assignee"}, "Assignee"),
      Rule({"attorney", "lawyer"}, "Attorney"),
      Rule({"inventor"}, "Inventor"),
      Rule({"applicant"}, "Applicant"),
      Rule({"examiner"}, "Examiner"),
      Rule({"persistent"}, "Persistent")>>
roleOf(item) == firstMatch(RoleRules, item.table_name, "Other")
RolesAlphabetical ==
    <<"Applicant", "Assignee", "Attorney", "Examiner", "Inventor", "Other",
      "Persistent">>
roleRank(role) ==
    CHOOSE i \in 1..Len(RolesAlphabetical) : RolesAlphabetical[i] = role

\* C22: for every Grouped category of the view the pairs are one per role
\* found among the items of the three sub-sequences, in alphabetical order
\* of the roles, and the disambiguated, raw and main of a pair are the
\* items of that role of the sub-sequence of that name, in its order; so
\* every item is in exactly one pair, in the sub-sequence it came from
C22_MatchedPairs ==
    \A c \in groupedCategories(filteredData) :
        \A pairs \in {matchedPairs(filteredData[c])} :
            LET files == filteredData[c]
                all == files.disambiguated \o files.raw \o files.main
            IN  /\ {pairs[k].personType : k \in 1..Len(pairs)}
                      = {roleOf(item) : item \in Elems(all)}
                /\ \A j, k \in 1..Len(pairs) :
                      j < k => roleRank(pairs[j].personType)
                                  < roleRank(pairs[k].personType)
                /\ \A k \in 1..Len(pairs) :
                      LET hasRole(item) == roleOf(item) = pairs[k].personType
                      IN  /\ pairs[k].disambiguated =
                                SelectSeq(files.disambiguated, hasRole)
                          /\ pairs[k].raw = SelectSeq(files.raw, hasRole)
                          /\ pairs[k].main = SelectSeq(files.main, hasRole)

\* two roles, the alphabetically later one first in links.json, and a file
\* without marker whose identifier holds the keywords of two roles
C22_Witness ==
    /\ loaded
    /\ "People" \in groupedCategories(filteredData)
    /\ \E pairs \in {matchedPairs(filteredData["People"])} :
          /\ Len(pairs) = 2
          /\ pairs[1].personType = "Assignee"
          /\ pairs[2].personType = "Inventor"
          /\ Len(pairs[2].main) = 1
          /\ includes(pairs[2].main[1].table_name, "persistent")
    /\ rawData[1].table_name = "g_persistent_inventor"

\* the name a file card shows
shownName(item) == formatDisplayName(item.displayName)

\* the identifier without a leading g_ or pg_
unprefixed(name) ==
    IF Len(name) >= 2 /\ SubSeq(name, 1, 2) = "g_"
    THEN SubSeq(name, 3, Len(name))
    ELSE IF Len(name) >= 3 /\ SubSeq(name, 1, 3) = "pg_"
    THEN SubSeq(name, 4, Len(name))
    ELSE name

\* position p of the text lies in the first occurrence, letter case aside,
\* of one of the acronyms
inFirstOccurrence(text, p) ==
    \E k \in 1..Len(abbreviations) :
        LET abbr == abbreviations[k]
            occurs(i) == \A n \in 1..Len(abbr) :
                            UpperChar(CharAt(text, i + n - 1)) = CharAt(abbr, n)
        IN  \E i \in 1..Len(text) :
                /\ occurs(i)
                /\ \A j \in 1..(i - 1) : ~occurs(j)
                /\ p \in i..(i + Len(abbr) - 1)

\* C23: the display name is the identifier without its leading g_ or pg_,
\* with a space for every underscore and the first letter of every word in
\* upper case; the name shown is the display name with the letters of the
\* first occurrence, letter case aside, of each of PCT, WIPO, CPC, IPC,
\* USPC and US in upper case and every other letter as it was; formatting
\* the name shown again gives the name shown
C23_DisplayName ==
    \A item \in TaxonomyItems :
        \A source \in {unprefixed(item.table_name)} :
            \A shown \in {shownName(item)} :
                /\ Len(item.displayName) = Len(source)
                /\ \A p \in 1..Len(source) :
                      CharAt(item.displayName, p) =
                          IF CharAt(source, p) = "_" THEN " "
                          ELSE IF p = 1 \/ CharAt(source, p - 1) = "_"
                          THEN UpperChar(CharAt(source, p))
                          ELSE CharAt(source, p)
                /\ Len(shown) = Len(item.displayName)
                /\ \A p \in 1..Len(shown) :
                      CharAt(shown, p) =
                          IF inFirstOccurrence(item.displayName, p)
                          THEN UpperChar(CharAt(item.displayName, p))
                          ELSE CharAt(item.displayName, p)
                /\ formatDisplayName(shown) = shown

\* a display name in which US occurs twice: the first occurrence is shown
\* in upper case, the second as it was
C23_Witness ==
    \E item \in TaxonomyItems :
        /\ item.displayName = "Us Application Status"
        /\ shownName(item) = "US Application Status"

\* the effects of the last render have run
settled == loaded /\ ~yearsEffectPending

\* C24: once the effects have run, filteredYears is the year list of the
\* active patent type and the selected content type, and yearFilter is
\* "all" or a year of that list
C24_YearFilterAvailable ==
    settled =>
        /\ filteredYears =
              getYearsForContentType(data, activeTab, contentTypeFilter)
        /\ yearFilter = "all" \/ yearFilter \in Elems(filteredYears)

\* a content type is selected whose year list lacks a year of the patent
\* type, and no year is selected
C24_Witness ==
    /\ settled
    /\ contentTypeFilter # "all"
    /\ yearFilter = "all"
    /\ Len(filteredYears) = 1
    /\ Elems(getYearsForContentType(data, activeTab, "all"))
          \ Elems(filteredYears) # {}

\* C25: whenever the filtered-years effect is due, a state is reached in
\* which it is not: the runs that a user event, or the load, sets off come
\* to an end
C25_EffectChainSettles == yearsEffectPending ~> ~yearsEffectPending

\* the effect has run for the selected content type, has reset the year,
\* and is due again because of that reset
C25_Witness ==
    /\ loaded
    /\ yearsEffectPending
    /\ contentTypeFilter # "all"
    /\ yearFilter = "all"
    /\ filteredYears =
          getYearsForContentType(data, activeTab, contentTypeFilter)
    /\ filteredYears # getYearsForContentType(data, activeTab, "all")

\* C26: the load is started once and, however the retrieval goes, the
\* taxonomy is eventually set and the loading state left
C26_EventuallyLoaded ==
    /\ <>loaded
    /\ (Len(outcome) = 3) ~> loaded
    /\ [][outcome # <<"pending">> => outcome' # <<"pending">>]_vars

\* the retrieval of a links.json with datasets has failed and loadData has
\* just set the taxonomy
C26_Witness ==
    /\ loaded
    /\ outcome = <<"consumed">>
    /\ yearsEffectPending
    /\ links # <<>>
    /\ rawData = <<>>
    /\ filteredYears = <<>>

\* C27: a step of handleTabChange makes the chosen tab the active patent
\* type and sets both facet filters to "all", whether or not the tab was
\* already active, and leaves the search query, the expanded groups and
\* the taxonomy as they were; no other step changes the active patent type
C27_TabChangeResets ==
    [][/\ \A tab \in PatentTypes :
            handleTabChange(tab) =>
                /\ activeTab' = tab
                /\ yearFilter' = "all"
                /\ contentTypeFilter' = "all"
                /\ search' = search
                /\ expandedGroups' = expandedGroups
                /\ data' = data
       /\ activeTab' # activeTab =>
            /\ yearFilter' = "all"
            /\ contentTypeFilter' = "all"
            /\ search' = search
            /\ expandedGroups' = expandedGroups
            /\ data' = data]_vars

\* the tab has just been changed to pregrant: both filters are "all" and a
\* run of the effect is due, while the query typed and the group toggled
\* before the change are still there
C27_Witness ==
    /\ loaded
    /\ activeTab = "pregrant"
    /\ yearsEffectPending
    /\ yearFilter = "all"
    /\ contentTypeFilter = "all"
    /\ search # ""
    /\ expandedGroups # initialExpandedState(data)
    /\ filteredYears # getYearsForContentType(data, activeTab, "all")

\* the identifiers of the datasets of the filtered view, whatever the
\* category and the sub-sequence they are listed in
shownDatasets ==
    UNION {{item.table_name : item \in Elems(itemsOf(filteredData[c]))} :
             c \in DOMAIN filteredData}

\* C28: the total shown as "datasets available" is the number of distinct
\* datasets of the active patent type that pass the filters, each dataset
\* counted once
C28_EachDatasetOnce ==
    loaded => totalFiles = Cardinality(shownDatasets)

\* C29: in an expanded People or Geography group every counted item, that
\* is every item of the filtered disambiguated, raw and main sequences, is
\* shown on exactly one card, in a row or under "Other Files"
C29_CountedIsDisplayed ==
    \A c \in groupedCategories(filteredData) :
        expandedGroups[c] =>
            \A cards \in {displayedCards(filteredData[c])} :
                \A item \in Elems(itemsOf(filteredData[c])) :
                    Cardinality({k \in 1..Len(cards) : cards[k] = item}) = 1

\* C30: the classifier exported by dataProcessor.js and the classifier of
\* the component give every descriptor the same patent type, category,
\* content type, year and display name
C30_ClassifiersAgree ==
    \A i \in 1..Len(links) :
        \A own \in {categorizeItem(links[i])} :
            \A exported \in {dataProcessor_categorizeItem(links[i])} :
                /\ exported.type = own.type
                /\ exported.category = own.category
                /\ exported.contentType = own.contentType
                /\ exported.year = own.year
                /\ exported.displayName = own.displayName

====
